---- MODULE Spec2Model ----
(***************************************************************************)
(* The docs plugin of packages/docusaurus-plugin-content-docs/src/index.ts *)
(* as a state machine: one load cycle (loadContent) starts one pipeline    *)
(* (loadVersion) per version, the pipelines finish in any order, the       *)
(* cycle resolves or rejects as Promise.all does, and contentLoaded turns  *)
(* a resolved cycle into routes and global data.                           *)
(*                                                                         *)
(* Optional values (undefined in the source) are sequences of length 0 or  *)
(* 1.  URLs are sequences of path segments.                                *)
(***************************************************************************)
EXTENDS Integers, Sequences, FiniteSets, TLC

\* ---------------------------------------------------------------- bounds
MaxDocs == 3
MaxRefs == 2
MaxSidebars == 2
MaxVersions == 2
MaxCycles == 2

\* ------------------------------------------------------------- constants
CURRENT_VERSION_NAME == "current"

\* latestVersion of a site without versions.json
NoVersion == "null"

\* options.homePageId when the option is not set, and an absent sidebar
Undefined == "undefined"

None == <<>>

Some(x) == <<x>>

\* Historical version names, most recent first.
AllVersionNames == <<"3.0", "2.0", "1.0">>

\* Document ids in the order localeCompare gives them.
IdOrder == <<"faq", "intro", "missing-doc">>

DocIds == {"faq", "intro"}

MissingDocId == "missing-doc"

Slugs == {"/", "/guide"}

Titles == {"Guide"}

SidebarNames == <<"docs", "api", "community", "extra">>

\* site context: baseUrl "/" and routeBasePath "docs", as path segments
baseUrl == <<>>

routeBasePath == <<"docs">>

\* ---------------------------------------------------------------- state
VARIABLES
  versionsMetadata,   \* sequence of version names, fixed by the constructor
  latestVersion,      \* legacyVersioningEnv.versioning.latestVersion
  homePageId,         \* options.homePageId
  docFiles,           \* per version: what the file reader returns
  sidebarFiles,       \* per version: what the sidebar file holds
  pc,                 \* per version: position of its loadVersion call
  results,            \* per version: the value its loadVersion promise holds
  loadStatus,         \* position of the load cycle
  content,            \* what the current loadContent call returned
  returned,           \* outcome of every finished loadContent call, in order
  sourceToPermalink,  \* the closure-level map of line 65
  routes,             \* routes added by the last contentLoaded
  globalData,         \* global data set by the last contentLoaded
  createdData         \* names of the data files written by createData

vars == <<versionsMetadata, latestVersion, homePageId, docFiles, sidebarFiles,
          pc, results, loadStatus, content, returned, sourceToPermalink,
          routes, globalData, createdData>>

siteVars == <<versionsMetadata, latestVersion, homePageId, docFiles, sidebarFiles>>

Versions == 1..Len(versionsMetadata)

\* ------------------------------------------------------------- utilities
Range(s) == {s[k] : k \in 1..Len(s)}

Max(S) == CHOOSE x \in S : \A y \in S : y <= x

Rank(id) == CHOOSE k \in 1..Len(IdOrder) : IdOrder[k] = id

\* a.localeCompare(b) on document ids
localeCompare(a, b) == Rank(a) - Rank(b)

\* normalizeUrl joins its parts with single slashes and drops empty parts.
RECURSIVE normalizeUrl(_)
normalizeUrl(parts) ==
  IF parts = <<>> THEN <<>> ELSE Head(parts) \o normalizeUrl(Tail(parts))

\* a string used as one URL part
PathPart(str) == IF str = "" \/ str = "/" THEN <<>> ELSE <<str>>

\* ------------------------------------------------- getVersionPathPart
getVersionPathPartCurrentByName(version) ==
  IF version = latestVersion THEN ""
  ELSE version

getVersionPathPart(version) ==
  IF version = latestVersion THEN ""
  ELSE IF version = CURRENT_VERSION_NAME THEN "next"
  ELSE version

\* ------------------------------------------- collaborators outside src/
\* readVersionsMetadata: the unreleased version first when it is included,
\* then the declared versions, most recent first.
readVersionsMetadata(includeCurrentVersion, versionNames) ==
  (IF includeCurrentVersion THEN <<CURRENT_VERSION_NAME>> ELSE <<>>) \o versionNames

\* readVersionDocs: the files of a version, each with its own source path.
readVersionDocs(v) ==
  [k \in 1..Len(docFiles[v]) |->
     [source |-> <<versionsMetadata[v], k>>,
      id     |-> docFiles[v][k].id,
      slug   |-> docFiles[v][k].slug,
      title  |-> docFiles[v][k].title]]

\* processDocMetadata: id, title, slug and the permalink under the version's
\* route-path fragment.
processDocMetadata(docFile, versionName) ==
  [id            |-> docFile.id,
   unversionedId |-> docFile.id,
   title         |-> docFile.title,
   slug          |-> docFile.slug,
   permalink     |-> normalizeUrl(<<baseUrl, routeBasePath,
                                    PathPart(getVersionPathPart(versionName)),
                                    PathPart(docFile.slug)>>),
   source        |-> docFile.source,
   version       |-> versionName]

\* loadSidebars returns the declared sidebars: a sequence of
\* [name, items], an item being a doc reference or a category of items.
loadSidebars(v) == sidebarFiles[v]

DocItem(id) == [type |-> "doc", id |-> id]

CategoryItem(label, items) == [type |-> "category", label |-> label, items |-> items]

\* depth-first, left-to-right flattening to the doc ids
RECURSIVE FlattenItems(_)
FlattenItems(items) ==
  IF items = <<>> THEN <<>>
  ELSE LET item == Head(items)
       IN (IF item.type = "doc" THEN <<item.id>> ELSE FlattenItems(item.items))
          \o FlattenItems(Tail(items))

HasDuplicates(s) == \E j, k \in 1..Len(s) : j # k /\ s[j] = s[k]

\* createOrder: per doc id its sidebar and its neighbours in the flattened
\* sidebar; a doc id twice in one sidebar is a fatal error.
createOrder(sidebars) ==
  LET flat(n) == FlattenItems(sidebars[n].items)
      ids     == UNION {Range(flat(n)) : n \in 1..Len(sidebars)}
      owner(id) == Max({n \in 1..Len(sidebars) : id \in Range(flat(n))})
      pos(id)   == CHOOSE k \in 1..Len(flat(owner(id))) : flat(owner(id))[k] = id
  IN [throws |-> \E n \in 1..Len(sidebars) : HasDuplicates(flat(n)),
      order  |-> [id \in ids |->
                    LET seq == flat(owner(id))
                        k   == pos(id)
                    IN [sidebar  |-> sidebars[owner(id)].name,
                        previous |-> IF k > 1 THEN Some(seq[k - 1]) ELSE None,
                        next     |-> IF k < Len(seq) THEN Some(seq[k + 1]) ELSE None]]]

\* ------------------------------------------------------------ loadVersion
loadVersionDocs(v) ==
  LET files == readVersionDocs(v)
  IN [k \in 1..Len(files) |-> processDocMetadata(files[k], versionsMetadata[v])]

\* lodash keyBy: the last document with a given id wins
keyBy(docs) ==
  [id \in {docs[k].id : k \in 1..Len(docs)} |->
     docs[Max({k \in 1..Len(docs) : docs[k].id = id})]]

OrderEntry(docsOrder, id) ==
  IF id \in DOMAIN docsOrder THEN docsOrder[id]
  ELSE [sidebar |-> Undefined, previous |-> None, next |-> None]

toDocNavLink(docsById, navDocId) ==
  [title |-> docsById[navDocId].title, permalink |-> docsById[navDocId].permalink]

\* toDocNavLink reads docsById[navDocId].title: a TypeError when the
\* neighbour is no document of the version
addNavDataThrows(doc, docsOrder, docsById) ==
  LET entry == OrderEntry(docsOrder, doc.id)
  IN \/ entry.previous # None /\ entry.previous[1] \notin DOMAIN docsById
     \/ entry.next # None /\ entry.next[1] \notin DOMAIN docsById

addNavData(doc, docsOrder, docsById) ==
  LET entry == OrderEntry(docsOrder, doc.id)
  IN [id            |-> doc.id,
      unversionedId |-> doc.unversionedId,
      title         |-> doc.title,
      slug          |-> doc.slug,
      permalink     |-> doc.permalink,
      source        |-> doc.source,
      version       |-> doc.version,
      sidebar       |-> entry.sidebar,
      previous      |-> IF entry.previous # None
                        THEN Some(toDocNavLink(docsById, entry.previous[1]))
                        ELSE None,
      next          |-> IF entry.next # None
                        THEN Some(toDocNavLink(docsById, entry.next[1]))
                        ELSE None]

\* Array.prototype.sort with (a, b) => a.id.localeCompare(b.id): stable
InsertById(sorted, d) ==
  LET k == Cardinality({j \in 1..Len(sorted) : localeCompare(sorted[j].id, d.id) <= 0})
  IN SubSeq(sorted, 1, k) \o <<d>> \o SubSeq(sorted, k + 1, Len(sorted))

RECURSIVE SortById(_)
SortById(s) ==
  IF s = <<>> THEN <<>>
  ELSE InsertById(SortById(SubSeq(s, 1, Len(s) - 1)), s[Len(s)])

\* lines 195-198: every loaded document writes its source into the shared map
WriteSourceToPermalink(map, loadedDocs) ==
  LET written == {loadedDocs[k].source : k \in 1..Len(loadedDocs)}
  IN [src \in DOMAIN map \cup written |->
        IF src \in written
        THEN loadedDocs[Max({k \in 1..Len(loadedDocs) : loadedDocs[k].source = src})].permalink
        ELSE map[src]]

\* lines 201-208: the last document written under a permalink wins
BuildPermalinkToSidebar(loadedDocs, docsOrder) ==
  LET inSidebar == {k \in 1..Len(loadedDocs) : loadedDocs[k].id \in DOMAIN docsOrder}
  IN [p \in {loadedDocs[k].permalink : k \in inSidebar} |->
        docsOrder[loadedDocs[Max({k \in inSidebar : loadedDocs[k].permalink = p})].id].sidebar]

\* lines 218-222: docs.find(...) ?? docs[0], over the documents as read
FindMainDoc(docs) ==
  LET matches == {k \in 1..Len(docs) :
                    docs[k].unversionedId = homePageId \/ docs[k].slug = "/"}
  IN IF matches # {} THEN docs[CHOOSE k \in matches : \A j \in matches : k <= j]
     ELSE docs[1]

\* The whole of loadVersion after its await: whether it throws, the
\* LoadedVersion it returns and the shared map it leaves behind.
loadVersion(v) ==
  LET docs       == loadVersionDocs(v)
      docsById   == keyBy(docs)
      sidebars   == loadSidebars(v)
      created    == createOrder(sidebars)
      docsOrder  == created.order
      navThrows  == \E k \in 1..Len(docs) : addNavDataThrows(docs[k], docsOrder, docsById)
      throws     == created.throws \/ navThrows \/ docs = <<>>
      loadedDocs == SortById([k \in 1..Len(docs) |-> addNavData(docs[k], docsOrder, docsById)])
  IN IF throws
     THEN [throws |-> TRUE, value |-> None, sourceToPermalink |-> sourceToPermalink]
     ELSE [throws |-> FALSE,
           value  |-> Some(
             [versionName        |-> versionsMetadata[v],
              versionPath        |-> normalizeUrl(<<baseUrl, routeBasePath,
                                       PathPart(getVersionPathPart(versionsMetadata[v]))>>),
              mainDocId          |-> FindMainDoc(docs).unversionedId,
              sidebars           |-> sidebars,
              permalinkToSidebar |-> BuildPermalinkToSidebar(loadedDocs, docsOrder),
              docs               |-> [k \in 1..Len(docs) |->
                                        addNavData(docs[k], docsOrder, docsById)]]),
           sourceToPermalink |-> WriteSourceToPermalink(sourceToPermalink, loadedDocs)]

\* ------------------------------------------------------------ loadContent
\* loadContent, up to its await: every version's loadVersion is called and
\* runs to its own await on the file reader.  A new cycle starts once the
\* pipelines of the previous one have settled.
LoadContent ==
  /\ loadStatus \in {"idle", "loaded", "rejected"}
  /\ \A v \in Versions : pc[v] # "reading"
  /\ Len(returned) < MaxCycles
  /\ pc' = [v \in Versions |-> "reading"]
  /\ results' = [v \in Versions |-> None]
  /\ loadStatus' = "running"
  /\ content' = None
  /\ UNCHANGED <<siteVars, returned, sourceToPermalink, routes, globalData, createdData>>

\* The continuation of one loadVersion call after its await; it runs to the
\* end without yielding.
LoadVersion(v) ==
  /\ pc[v] = "reading"
  /\ LET r == loadVersion(v)
     IN /\ pc' = [pc EXCEPT ![v] = IF r.throws THEN "failed" ELSE "done"]
        /\ results' = [results EXCEPT ![v] = r.value]
        /\ sourceToPermalink' = r.sourceToPermalink
  /\ UNCHANGED <<siteVars, loadStatus, content, returned, routes, globalData, createdData>>

\* A combinator that waits for every pipeline to settle and keeps the
\* values of those that succeeded.
PromiseAllSettledValues ==
  IF \A v \in Versions : pc[v] \in {"done", "failed"}
  THEN [state |-> "fulfilled",
        value |-> LET ok == SelectSeq([v \in Versions |-> v], LAMBDA v : pc[v] = "done")
                  IN [k \in 1..Len(ok) |-> results[ok[k]][1]]]
  ELSE [state |-> "pending", value |-> <<>>]

\* Promise.all(versionsMetadata.map(loadVersion)): rejected once a pipeline
\* has thrown, fulfilled with the values in the order of versionsMetadata
\* once all have returned.
PromiseAll ==
  IF \E v \in Versions : pc[v] = "failed"
  THEN [state |-> "rejected", value |-> <<>>]
  ELSE IF \A v \in Versions : pc[v] = "done"
  THEN [state |-> "fulfilled", value |-> [v \in Versions |-> results[v][1]]]
  ELSE [state |-> "pending", value |-> <<>>]

\* loadContent returns {loadedVersions}
LoadContentResolve ==
  /\ loadStatus = "running"
  /\ PromiseAll.state = "fulfilled"
  /\ content' = Some([loadedVersions |-> PromiseAll.value])
  /\ returned' = Append(returned, content')
  /\ loadStatus' = "resolved"
  /\ UNCHANGED <<siteVars, pc, results, sourceToPermalink, routes, globalData, createdData>>

\* loadContent rejects; the pipelines still reading are not cancelled
LoadContentReject ==
  /\ loadStatus = "running"
  /\ PromiseAll.state = "rejected"
  /\ returned' = Append(returned, None)
  /\ loadStatus' = "rejected"
  /\ UNCHANGED <<siteVars, pc, results, content, sourceToPermalink, routes, globalData, createdData>>

\* ---------------------------------------------------------- contentLoaded
\* the sorted list of doc routes, as the set of its elements
createDocRoutes(docs) ==
  {[path |-> docs[k].permalink, exact |-> TRUE, content |-> docs[k].source] :
     k \in 1..Len(docs)}

VersionRoute(loadedVersion) ==
  [path     |-> loadedVersion.versionPath,
   exact    |-> FALSE,
   routes   |-> createDocRoutes(loadedVersion.docs),
   priority |-> IF getVersionPathPart(loadedVersion.versionName) = ""
                THEN Some(-1) ELSE None]

toGlobalDataVersion(loadedVersion) ==
  [name      |-> loadedVersion.versionName,
   path      |-> loadedVersion.versionPath,
   mainDocId |-> loadedVersion.mainDocId]

\* global data that keeps the versions of the previous cycle
GlobalDataMerged(previous, loadedVersions) ==
  [path              |-> normalizeUrl(<<baseUrl, routeBasePath>>),
   latestVersionName |-> latestVersion,
   versions          |-> (IF previous = None THEN <<>> ELSE previous[1].versions)
                         \o [v \in 1..Len(loadedVersions) |->
                               toGlobalDataVersion(loadedVersions[v])]]

\* the object handed to setGlobalData (lines 299-303)
GlobalData(previous, loadedVersions) ==
  [path              |-> normalizeUrl(<<baseUrl, routeBasePath>>),
   latestVersionName |-> latestVersion,
   versions          |-> [v \in 1..Len(loadedVersions) |->
                            toGlobalDataVersion(loadedVersions[v])]]

CreatedDataNames(loadedVersions) ==
  {<<"version-metadata-prop", loadedVersions[v].versionName>> :
     v \in 1..Len(loadedVersions)}
  \cup UNION {{<<"doc", loadedVersions[v].docs[k].source>> :
                 k \in 1..Len(loadedVersions[v].docs)} :
              v \in 1..Len(loadedVersions)}

ContentLoaded ==
  /\ loadStatus = "resolved"
  /\ LET loadedVersions == content[1].loadedVersions
     IN /\ createdData' = createdData \cup CreatedDataNames(loadedVersions)
        /\ routes' = {VersionRoute(loadedVersions[v]) : v \in 1..Len(loadedVersions)}
        /\ globalData' = Some(GlobalData(globalData, loadedVersions))
  /\ loadStatus' = "loaded"
  /\ UNCHANGED <<siteVars, pc, results, content, returned, sourceToPermalink>>

\* ------------------------------------------------------------------ inputs
Min(a, b) == IF a < b THEN a ELSE b

\* versions.json: the n most recent declared versions, most recent first
VersionsJsonChoices ==
  {SubSeq(AllVersionNames, Len(AllVersionNames) - n + 1, Len(AllVersionNames)) :
     n \in 0..Min(MaxVersions, Len(AllVersionNames))}

\* loadEnv: the first declared version is the latest one; without declared
\* versions the legacy environment has none, while the only version of the
\* site is the one marked last.
loadEnvLatestVersion(versionNames) ==
  IF versionNames # <<>> THEN {Head(versionNames)}
  ELSE {NoVersion, CURRENT_VERSION_NAME}

SiteConfigs ==
  {cfg \in UNION {UNION {{[names  |-> readVersionsMetadata(inc, vn), latest |-> l] :
                            l \in loadEnvLatestVersion(vn)} :
                         vn \in VersionsJsonChoices} :
                  inc \in BOOLEAN} :
     cfg.names # <<>>}

DocFileChoices == [id : DocIds, slug : Slugs, title : Titles]

DocFileSeqs == UNION {[1..n -> DocFileChoices] : n \in 0..MaxDocs}

RefSeqs(n) == UNION {[1..k -> DocIds \cup {MissingDocId}] : k \in 0..n}

FlatItems(refs) == [k \in 1..Len(refs) |-> DocItem(refs[k])]

\* the references at the top level, or all but the last inside a category
ItemShapes(refs) ==
  IF refs = <<>> THEN {<<>>, <<CategoryItem("Guides", <<>>)>>}
  ELSE {FlatItems(refs),
        <<CategoryItem("Guides", FlatItems(SubSeq(refs, 1, Len(refs) - 1))),
          DocItem(refs[Len(refs)])>>}

RefCount(sidebars) == Len(FlattenItems([n \in 1..Len(sidebars) |->
                            CategoryItem(sidebars[n].name, sidebars[n].items)]))

\* m sidebars that hold at most budget references together
RECURSIVE SidebarSeqs(_, _)
SidebarSeqs(m, budget) ==
  IF m = 0 THEN {<<>>}
  ELSE UNION {{Append(prefix, [name |-> SidebarNames[m], items |-> items]) :
                 items \in UNION {ItemShapes(refs) :
                                    refs \in RefSeqs(budget - RefCount(prefix))}} :
              prefix \in SidebarSeqs(m - 1, budget)}

\* a document is referenced from at most one sidebar of a version
InOneSidebar(sidebars) ==
  \A m, n \in 1..Len(sidebars) :
    m # n => Range(FlattenItems(sidebars[m].items))
               \cap Range(FlattenItems(sidebars[n].items)) = {}

SidebarsChoices ==
  {sidebars \in UNION {SidebarSeqs(m, MaxRefs) : m \in 0..Min(MaxSidebars, Len(SidebarNames))} :
     InOneSidebar(sidebars)}

\* every content of one version within the bounds
VersionInputs == [docs : DocFileSeqs, sidebars : SidebarsChoices]

\* the contents the versions of a several-version site are drawn from
SiteVersionInputs ==
  {[docs |-> <<>>, sidebars |-> <<>>],
   [docs |-> <<[id |-> "intro", slug |-> "/", title |-> "Intro"]>>,
    sidebars |-> <<[name |-> "docs", items |-> <<DocItem("intro")>>]>>],
   [docs |-> <<[id |-> "intro", slug |-> "/guide", title |-> "Guide"],
               [id |-> "faq", slug |-> "/", title |-> "Intro"]>>,
    sidebars |-> <<[name |-> "docs",
                    items |-> <<CategoryItem("Guides", <<DocItem("intro")>>),
                                DocItem("faq")>>]>>],
   [docs |-> <<[id |-> "faq", slug |-> "/guide", title |-> "Guide"]>>,
    sidebars |-> <<[name |-> "docs",
                    items |-> <<DocItem("faq"), DocItem(MissingDocId)>>]>>]}

InitSite(cfg, home, inputs) ==
  /\ versionsMetadata = cfg.names
  /\ latestVersion = cfg.latest
  /\ homePageId = home
  /\ docFiles = [v \in 1..Len(cfg.names) |-> inputs[v].docs]
  /\ sidebarFiles = [v \in 1..Len(cfg.names) |-> inputs[v].sidebars]
  /\ pc = [v \in 1..Len(cfg.names) |-> "idle"]
  /\ results = [v \in 1..Len(cfg.names) |-> None]
  /\ loadStatus = "idle"
  /\ content = None
  /\ returned = <<>>
  /\ sourceToPermalink = <<>>
  /\ routes = {}
  /\ globalData = None
  /\ createdData = {}

\* a site of one to MaxVersions + 1 versions
Init ==
  \E cfg \in SiteConfigs, home \in {Undefined, "intro"} :
    \E inputs \in [1..Len(cfg.names) -> SiteVersionInputs] :
      InitSite(cfg, home, inputs)

\* a site of one version, with every content within the bounds
InitVersion ==
  \E cfg \in {c \in SiteConfigs : Len(c.names) = 1}, home \in DocIds \cup {Undefined} :
    \E inputs \in [1..1 -> VersionInputs] :
      InitSite(cfg, home, inputs)

Next ==
  \/ LoadContent
  \/ \E v \in Versions : LoadVersion(v)
  \/ LoadContentResolve
  \/ LoadContentReject
  \/ ContentLoaded

Spec == Init /\ [][Next]_vars

SpecVersion == InitVersion /\ [][Next]_vars

\* ------------------------------------------------------------ properties
Loaded(v) == results[v] # None

LoadedDocs(v) == results[v][1].docs

\* the doc ids a version's sidebars reference, one entry per position
SidebarRefs(v) ==
  FlattenItems([n \in 1..Len(sidebarFiles[v]) |->
                  CategoryItem(sidebarFiles[v][n].name, sidebarFiles[v][n].items)])

Positions(v, id) == {k \in 1..Len(SidebarRefs(v)) : SidebarRefs(v)[k] = id}

NavLinkTo(doc) == [title |-> doc.title, permalink |-> doc.permalink]

\* C1: the route-path fragment of a version is "" for the latest version,
\* "next" for the unreleased current version (when it is not the latest) and
\* the version's own name for every other version; a loaded version's
\* versionPath is the route base path followed by that fragment.
C1_VersionPathPart ==
  \A v \in Versions :
    LET name == versionsMetadata[v]
        fragment == getVersionPathPart(name)
    IN /\ name = latestVersion => fragment = ""
       /\ name # latestVersion /\ name = CURRENT_VERSION_NAME => fragment = "next"
       /\ name # latestVersion /\ name # CURRENT_VERSION_NAME => fragment = name
       /\ Loaded(v) =>
            results[v][1].versionPath =
              IF name = latestVersion THEN <<"docs">>
              ELSE IF name = CURRENT_VERSION_NAME THEN <<"docs", "next">>
              ELSE <<"docs", name>>

\* versions [2.0, 1.0] with current included and 2.0 latest, all loaded
C1_Witness ==
  /\ versionsMetadata = <<"current", "2.0", "1.0">>
  /\ latestVersion = "2.0"
  /\ \A v \in Versions : Loaded(v)
  /\ getVersionPathPart("2.0") = ""
  /\ getVersionPathPart("1.0") = "1.0"
  /\ getVersionPathPart("current") = "next"
  /\ results[1][1].versionPath = <<"docs", "next">>
  /\ results[2][1].versionPath = <<"docs">>

\* C2: when a loaded version has a document with slug "/", its mainDocId is
\* the id of a document with slug "/", also when another document matches
\* the configured home id, in whatever order the two were read.
C2_SlugBeforeHomeId ==
  \A v \in Versions :
    Loaded(v) =>
      LET docs == LoadedDocs(v)
          slugDocs == {k \in 1..Len(docs) : docs[k].slug = "/"}
      IN slugDocs # {} =>
           results[v][1].mainDocId \in {docs[k].unversionedId : k \in slugDocs}

\* C3: when no document of a loaded version has slug "/" and none matches the
\* home id, mainDocId is the smallest document id of the version.
C3_FallbackIsSmallestId ==
  \A v \in Versions :
    Loaded(v) =>
      LET docs == LoadedDocs(v)
      IN (\A k \in 1..Len(docs) :
            docs[k].slug # "/" /\ docs[k].unversionedId # homePageId)
         => \A k \in 1..Len(docs) :
              localeCompare(results[v][1].mainDocId, docs[k].id) <= 0

DocIdsOf(v) == {docFiles[v][k].id : k \in 1..Len(docFiles[v])}

HasDanglingRef(v) == \E id \in Range(SidebarRefs(v)) : id \notin DocIdsOf(v)

\* C4: a version whose sidebars reference a doc id that is no document of
\* the version never yields a LoadedVersion, wherever the reference stands.
C4_DanglingRefFails ==
  \A v \in Versions : HasDanglingRef(v) => ~Loaded(v)

\* C5: the documents of a loaded version have pairwise distinct ids and
\* pairwise distinct permalinks.
C5_UniqueIdAndPermalink ==
  \A v \in Versions :
    Loaded(v) =>
      \A j, k \in 1..Len(LoadedDocs(v)) :
        j # k => /\ LoadedDocs(v)[j].id # LoadedDocs(v)[k].id
                 /\ LoadedDocs(v)[j].permalink # LoadedDocs(v)[k].permalink

\* C6: in a loaded version, for documents A and B that each stand at exactly
\* one sidebar position, A.next is B's title and permalink exactly when
\* B.previous is A's title and permalink; the first document of a flattened
\* sidebar has no previous and the last has no next.
C6_MutualNeighbours ==
  \A v \in Versions :
    Loaded(v) =>
      LET docs == LoadedDocs(v)
          once == {k \in 1..Len(docs) : Cardinality(Positions(v, docs[k].id)) = 1}
      IN /\ \A a, b \in once :
              a # b =>
                (docs[a].next = Some(NavLinkTo(docs[b]))
                   <=> docs[b].previous = Some(NavLinkTo(docs[a])))
         /\ \A n \in 1..Len(sidebarFiles[v]) :
              LET seq == FlattenItems(sidebarFiles[v][n].items)
              IN \A a \in once :
                   /\ (seq # <<>> /\ seq[1] = docs[a].id) => docs[a].previous = None
                   /\ (seq # <<>> /\ seq[Len(seq)] = docs[a].id) => docs[a].next = None

\* C7: in a loaded version every document read is in docs; a document that
\* no sidebar references has no sidebar, previous or next and its permalink
\* is no key of permalinkToSidebar; permalinkToSidebar maps a permalink to a
\* sidebar name exactly for the documents that have that sidebar.
C7_NoSidebarNoNavigation ==
  \A v \in Versions :
    Loaded(v) =>
      LET docs == LoadedDocs(v)
          p2s  == results[v][1].permalinkToSidebar
      IN /\ Len(docs) = Len(docFiles[v])
         /\ \A k \in 1..Len(docs) :
              /\ docs[k].source = <<versionsMetadata[v], k>>
              /\ Positions(v, docs[k].id) = {} =>
                   /\ docs[k].sidebar = Undefined
                   /\ docs[k].previous = None
                   /\ docs[k].next = None
                   /\ docs[k].permalink \notin DOMAIN p2s
              /\ docs[k].sidebar # Undefined =>
                   /\ docs[k].permalink \in DOMAIN p2s
                   /\ p2s[docs[k].permalink] = docs[k].sidebar
         /\ \A p \in DOMAIN p2s :
              \E k \in 1..Len(docs) : docs[k].permalink = p /\ docs[k].sidebar = p2s[p]

\* Supporting fact for the two properties above: they hold of every loaded
\* version whose files have pairwise distinct ids and pairwise distinct slugs.
DistinctFiles(v) ==
  \A j, k \in 1..Len(docFiles[v]) :
    j # k => /\ docFiles[v][j].id # docFiles[v][k].id
             /\ docFiles[v][j].slug # docFiles[v][k].slug

NavigationOfDistinctFiles ==
  (\A v \in Versions : DistinctFiles(v))
    => C6_MutualNeighbours /\ C7_NoSidebarNoNavigation

\* C8: no structure is written by the pipelines of two versions: the
\* entries of sourceToPermalink all come from the documents of one version.
C8_NoSharedWrites ==
  \A s1, s2 \in DOMAIN sourceToPermalink : s1[1] = s2[1]

\* C9: a load cycle is all or nothing: loadContent returns loadedVersions
\* only when every pipeline has returned, and then one per version; when a
\* pipeline has thrown the call returns nothing, and routes and global data
\* only ever come from a complete set of versions.
C9_AllOrNothing ==
  /\ loadStatus \in {"resolved", "loaded"} =>
       /\ \A v \in Versions : pc[v] = "done"
       /\ content # None
       /\ Len(content[1].loadedVersions) = Len(versionsMetadata)
  /\ (\E v \in Versions : pc[v] = "failed") => content = None
  /\ content # None =>
       \A v \in Versions : content[1].loadedVersions[v] = results[v][1]
  /\ globalData # None => Len(globalData[1].versions) = Len(versionsMetadata)
  /\ routes # {} =>
       {r.path : r \in routes} =
         {normalizeUrl(<<baseUrl, routeBasePath,
                         PathPart(getVersionPathPart(versionsMetadata[v]))>>) :
            v \in Versions}

\* one version has returned, another has thrown, and the cycle was rejected
C9_Witness ==
  /\ loadStatus = "rejected"
  /\ \E v, w \in Versions : pc[v] = "done" /\ pc[w] = "failed"
  /\ content = None
  /\ returned # <<>> /\ returned[Len(returned)] = None
  /\ routes = {}
  /\ globalData = None

\* C10: every run of loadContent on the same input returns the same result,
\* with the versions in the order of versionsMetadata, whatever the order
\* in which the pipelines finished; the global data set after a run holds
\* the versions of that run only.
C10_Idempotent ==
  /\ \A i, j \in 1..Len(returned) : returned[i] = returned[j]
  /\ \A i \in 1..Len(returned) :
       returned[i] # None =>
         /\ Len(returned[i][1].loadedVersions) = Len(versionsMetadata)
         /\ \A v \in Versions :
              returned[i][1].loadedVersions[v].versionName = versionsMetadata[v]
  /\ loadStatus = "loaded" =>
       /\ globalData # None
       /\ globalData[1].latestVersionName = latestVersion
       /\ [v \in Versions |-> globalData[1].versions[v].name] = versionsMetadata
       /\ Len(globalData[1].versions) = Len(versionsMetadata)
       /\ \A v \in Versions :
            globalData[1].versions[v].mainDocId = content[1].loadedVersions[v].mainDocId

\* the second run of a site of several versions has been loaded
C10_Witness ==
  /\ Len(returned) = 2
  /\ loadStatus = "loaded"
  /\ Len(versionsMetadata) >= 2
  /\ returned[1] # None
  /\ returned[1] = returned[2]
  /\ Len(globalData[1].versions) = Len(versionsMetadata)

====
